---- MODULE Spec2Model ----
(***************************************************************************)
(* Word search solver (src/word_search.py): the directional matcher, the   *)
(* grid searcher and the command-line program around them.                 *)
(*                                                                         *)
(* Python values are modelled as follows.  A list is a TLA+ sequence, so   *)
(* the Python index i is the TLA+ index i + 1.  A word is a sequence of    *)
(* one-character strings.  A grid is a sequence of rows, each a sequence   *)
(* of cells.  A Match tuple (word, row, col, direction) is a 4-tuple.      *)
(***************************************************************************)
EXTENDS Integers, Sequences, FiniteSets

VARIABLES
    entry,        \* the function the run entered: search_for_words, find_word_in_direction or main
    pc,           \* position of the run
    grid,         \* the letter grid (search_for_words / find_word_in_direction argument, main's local)
    words,        \* the word list
    wi,           \* 1-based index of the next word of `for word in words`
    found_words,  \* search_for_words' result list
    exc,          \* the exception raised: its type ("none" if none) and, for a missing file, e.filename
    call,         \* the last find_word_in_direction call made directly, with its result
    argv_len,     \* len(sys.argv)
    grid_file,    \* the file sys.argv[1] names: "missing", "unreadable" or "readable"
    words_file,   \* the file sys.argv[2] names: "missing", "unreadable" or "readable"
    opens,        \* the files the run has called open() on, in order
    stdout,       \* what main printed, in order
    exit_code,    \* the process's exit status once pc = "exited"
    results_file, \* word_search_results.txt: whether the run opened (truncated) it, and the lines written
    wrow          \* 1-based index of the next found word main writes to the results file

vars == <<entry, pc, grid, words, wi, found_words, exc, call, argv_len,
          grid_file, words_file, opens, stdout, exit_code, results_file, wrow>>

(***************************************************************************)
(* Bounds of the model.                                                    *)
(***************************************************************************)
MaxRows == 2
MaxCols == 2
MaxWordLen == 3
MaxWords == 2
MaxListCells == 2
MaxListWordLen == 1

Letters == {"A", "B"}

\* Sequences over S of length lo..hi.
SeqsOf(S, lo, hi) == UNION {[1..n -> S] : n \in lo..hi}

\* Rectangular grids: R rows of C single-character cells each, and the grid with no rows.
Grids == UNION {[1..r -> [1..c -> Letters]] : r \in 0..MaxRows, c \in 1..MaxCols}
Words == SeqsOf(Letters, 1, MaxWordLen)
WordLists == SeqsOf(SeqsOf(Letters, 1, MaxListWordLen), 0, MaxWords)
\* Every grid is searched with every list of one word; the grids of at most
\* MaxListCells cells are searched with every list of at most MaxWords words
\* of at most MaxListWordLen letters.
SmallGrids == {g \in Grids : Len(g) = 0 \/ Len(g) * Len(g[1]) <= MaxListCells}
SearchInputs ==
    (Grids \X SeqsOf(Words, 1, 1)) \cup (SmallGrids \X WordLists)

(***************************************************************************)
(* get_directions                                                          *)
(***************************************************************************)
directions_swapped ==
    << <<0, -1, "horizontal_left">>,
       <<0, 1, "horizontal_right">>,
       <<1, 0, "vertical_down">>,
       <<-1, 0, "vertical_up">>,
       <<1, 1, "diagonal_down_right">>,
       <<1, -1, "diagonal_down_left">>,
       <<-1, 1, "diagonal_up_right">>,
       <<-1, -1, "diagonal_up_left">> >>

get_directions ==
    << <<0, 1, "horizontal_right">>,
       <<0, -1, "horizontal_left">>,
       <<1, 0, "vertical_down">>,
       <<-1, 0, "vertical_up">>,
       <<1, 1, "diagonal_down_right">>,
       <<1, -1, "diagonal_down_left">>,
       <<-1, 1, "diagonal_up_right">>,
       <<-1, -1, "diagonal_up_left">> >>

(***************************************************************************)
(* Python list indexing: seq[i].  A negative index counts from the end;    *)
(* an index outside -len..len-1 raises IndexError.                         *)
(***************************************************************************)
IndexRaises(seq, i) == i < -Len(seq) \/ i >= Len(seq)

PyIndex(seq, i) == IF i >= 0 THEN seq[i + 1] ELSE seq[Len(seq) + i + 1]

\* grid[row][col] raises IndexError
GridCellRaises(g, row, col) ==
    IndexRaises(g, row) \/ IndexRaises(PyIndex(g, row), col)

\* grid[row][col]
GridCell(g, row, col) == PyIndex(PyIndex(g, row), col)

(***************************************************************************)
(* is_valid_position: `and` and the chained comparisons short-circuit, so  *)
(* grid[0] is read only when 0 <= row < len(grid) holds.                   *)
(***************************************************************************)
is_valid_position_no_lower(g, row, col) ==
    row < Len(g) /\ Len(g) > 0 /\ col < Len(g[1])

is_valid_position(g, row, col) ==
    0 <= row /\ row < Len(g) /\ 0 <= col /\ col < Len(g[1])

(***************************************************************************)
(* find_word_in_direction: the loop over enumerate(word), from index i on. *)
(* The outcome is "True", "False" or "IndexError" (grid[row][col] read on  *)
(* a row shorter than grid[0]).                                            *)
(***************************************************************************)
RECURSIVE MatchFrom(_, _, _, _, _, _, _)
MatchFrom(g, word, start_row, start_col, delta_row, delta_col, i) ==
    IF i >= Len(word) THEN "True"
    ELSE LET row == start_row + i * delta_row
             col == start_col + i * delta_col
         IN  IF ~is_valid_position(g, row, col) THEN "False"
             ELSE IF GridCellRaises(g, row, col) THEN "IndexError"
             ELSE IF GridCell(g, row, col) # word[i + 1] THEN "False"
             ELSE MatchFrom(g, word, start_row, start_col,
                            delta_row, delta_col, i + 1)

find_word_in_direction(g, word, start_row, start_col, delta_row, delta_col) ==
    MatchFrom(g, word, start_row, start_col, delta_row, delta_col, 0)

(***************************************************************************)
(* search_for_words, the body of `for word in words`: the three nested     *)
(* loops with their breaks.  A scan ends with the first match, with no     *)
(* match, or with the IndexError a matcher call raised.                    *)
(***************************************************************************)
NoMatch == [kind |-> "none", row |-> 0, col |-> 0, direction |-> ""]
Raised == [kind |-> "raised", row |-> 0, col |-> 0, direction |-> ""]
Hit(start_row, start_col, direction) ==
    [kind |-> "found", row |-> start_row, col |-> start_col, direction |-> direction]

\* for delta_row, delta_col, direction in directions: from the d-th entry on
RECURSIVE ScanDirections(_, _, _, _, _)
ScanDirections(g, word, start_row, start_col, d) ==
    IF d > Len(get_directions) THEN NoMatch
    ELSE LET dir == get_directions[d]
             res == find_word_in_direction(g, word, start_row, start_col, dir[1], dir[2])
         IN  IF res = "IndexError" THEN Raised
             ELSE IF res = "True" THEN Hit(start_row, start_col, dir[3])
             ELSE ScanDirections(g, word, start_row, start_col, d + 1)

\* for start_col in range(len(grid[0])): from start_col on
RECURSIVE ScanCols(_, _, _, _)
ScanCols(g, word, start_row, start_col) ==
    IF start_col >= Len(g[1]) THEN NoMatch
    ELSE LET res == ScanDirections(g, word, start_row, start_col, 1)
         IN  IF res.kind # "none" THEN res
             ELSE ScanCols(g, word, start_row, start_col + 1)

\* for start_row in range(len(grid)): from start_row on
RECURSIVE ScanRows(_, _, _)
ScanRows(g, word, start_row) ==
    IF start_row >= Len(g) THEN NoMatch
    ELSE LET res == ScanCols(g, word, start_row, 0)
         IN  IF res.kind # "none" THEN res
             ELSE ScanRows(g, word, start_row + 1)

\* The same scan with the two outer loops exchanged (columns outermost).
RECURSIVE ScanRowsOfCol(_, _, _, _)
ScanRowsOfCol(g, word, start_row, start_col) ==
    IF start_row >= Len(g) THEN NoMatch
    ELSE LET res == ScanDirections(g, word, start_row, start_col, 1)
         IN  IF res.kind # "none" THEN res
             ELSE ScanRowsOfCol(g, word, start_row + 1, start_col)

RECURSIVE ScanColsOuter(_, _, _)
ScanColsOuter(g, word, start_col) ==
    IF Len(g) = 0 \/ start_col >= Len(g[1]) THEN NoMatch
    ELSE LET res == ScanRowsOfCol(g, word, 0, start_col)
         IN  IF res.kind # "none" THEN res
             ELSE ScanColsOuter(g, word, start_col + 1)

FirstMatch_column_major(g, word) == ScanColsOuter(g, word, 0)

\* The scan of one word from the top-left cell.
FirstMatch(g, word) == ScanRows(g, word, 0)

\* (word, start_row + 1, start_col + 1, direction)
MatchTuple_zero_based(word, start_row, start_col, direction) ==
    <<word, start_row, start_col, direction>>

MatchTuple(word, start_row, start_col, direction) ==
    <<word, start_row + 1, start_col + 1, direction>>

\* found_words.append(m)
AppendMatch_front(found, m) == <<m>> \o found

AppendMatch(found, m) == Append(found, m)

(***************************************************************************)
(* Values of the variables a run does not use.                             *)
(***************************************************************************)
NoCall == [made |-> FALSE, word |-> <<>>, start_row |-> 0, start_col |-> 0,
           delta_row |-> 0, delta_col |-> 0, result |-> ""]
NoException == [type |-> "none", filename |-> ""]
IndexErrorRaised == [type |-> "IndexError", filename |-> ""]
Untouched == [opened |-> FALSE, lines |-> <<>>]

\* Every match of the word, cell by cell in row-major order, each with the
\* first direction matching at the cell: the scan without its breaks out of
\* the two outer loops.
RECURSIVE AllCellMatches(_, _, _)
AllCellMatches(g, word, k) ==
    IF Len(g) = 0 \/ k >= Len(g) * Len(g[1]) THEN <<>>
    ELSE LET start_row == k \div Len(g[1])
             start_col == k % Len(g[1])
             res == ScanDirections(g, word, start_row, start_col, 1)
         IN  (IF res.kind = "found"
              THEN <<MatchTuple(word, res.row, res.col, res.direction)>>
              ELSE <<>>) \o AllCellMatches(g, word, k + 1)

SearchWord_no_break ==
    /\ pc = "search"
    /\ wi <= Len(words)
    /\ found_words' = found_words \o AllCellMatches(grid, words[wi], 0)
    /\ wi' = wi + 1
    /\ UNCHANGED <<entry, pc, grid, words, exc, call, argv_len, grid_file,
                   words_file, opens, stdout, exit_code, results_file, wrow>>

SearchWord_placeholder ==
    /\ pc = "search"
    /\ wi <= Len(words)
    /\ LET word == words[wi]
           res == FirstMatch(grid, word)
       IN  found_words' =
               IF res.kind = "found"
               THEN AppendMatch(found_words,
                                MatchTuple(word, res.row, res.col, res.direction))
               ELSE AppendMatch(found_words, <<word, 0, 0, "not_found">>)
    /\ wi' = wi + 1
    /\ UNCHANGED <<entry, pc, grid, words, exc, call, argv_len, grid_file,
                   words_file, opens, stdout, exit_code, results_file, wrow>>

(***************************************************************************)
(* search_for_words: one iteration of `for word in words`.  An IndexError  *)
(* of a matcher call leaves search_for_words; main catches it.             *)
(***************************************************************************)
SearchWord ==
    /\ pc = "search"
    /\ wi <= Len(words)
    /\ LET word == words[wi]
           res == FirstMatch(grid, word)
       IN  IF res.kind = "raised"
           THEN /\ exc' = IndexErrorRaised
                /\ pc' = IF entry = "main" THEN "except" ELSE "raised"
                /\ UNCHANGED <<found_words, wi>>
           ELSE /\ found_words' =
                       IF res.kind = "found"
                       THEN AppendMatch(found_words,
                                        MatchTuple(word, res.row, res.col, res.direction))
                       ELSE found_words
                /\ wi' = wi + 1
                /\ UNCHANGED <<pc, exc>>
    /\ UNCHANGED <<entry, grid, words, call, argv_len, grid_file, words_file,
                   opens, stdout, exit_code, results_file, wrow>>

\* return found_words
SearchReturn ==
    /\ pc = "search"
    /\ wi > Len(words)
    /\ pc' = IF entry = "main" THEN "print_results" ELSE "returned"
    /\ UNCHANGED <<entry, grid, words, wi, found_words, exc, call, argv_len,
                   grid_file, words_file, opens, stdout, exit_code, results_file, wrow>>

(***************************************************************************)
(* A call of search_for_words(grid, words) on a rectangular grid.          *)
(***************************************************************************)
Init ==
    /\ entry = "search_for_words"
    /\ pc = "search"
    /\ \E input \in SearchInputs : grid = input[1] /\ words = input[2]
    /\ wi = 1
    /\ found_words = <<>>
    /\ exc = NoException
    /\ call = NoCall
    /\ argv_len = 0
    /\ grid_file = "none"
    /\ words_file = "none"
    /\ opens = <<>>
    /\ stdout = <<>>
    /\ exit_code = 0
    /\ results_file = Untouched
    /\ wrow = 1

Next == SearchWord \/ SearchReturn

Spec == Init /\ [][Next]_vars

(***************************************************************************)
(* A call of find_word_in_direction(grid, word, start_row, start_col,      *)
(* delta_row, delta_col) from a cell position, in one of the 8 directions. *)
(***************************************************************************)
CallMatcher ==
    /\ pc = "call"
    /\ \E word \in Words, start_row \in 0..(MaxRows - 1),
          start_col \in 0..(MaxCols - 1), d \in 1..Len(get_directions) :
          call' = [made |-> TRUE, word |-> word,
                   start_row |-> start_row, start_col |-> start_col,
                   delta_row |-> get_directions[d][1],
                   delta_col |-> get_directions[d][2],
                   result |-> find_word_in_direction(grid, word, start_row, start_col,
                                 get_directions[d][1], get_directions[d][2])]
    /\ pc' = "returned"
    /\ UNCHANGED <<entry, grid, words, wi, found_words, exc, argv_len, grid_file,
                   words_file, opens, stdout, exit_code, results_file, wrow>>

InitMatch ==
    /\ entry = "find_word_in_direction"
    /\ pc = "call"
    /\ grid \in Grids
    /\ words = <<>>
    /\ wi = 1
    /\ found_words = <<>>
    /\ exc = NoException
    /\ call = NoCall
    /\ argv_len = 0
    /\ grid_file = "none"
    /\ words_file = "none"
    /\ opens = <<>>
    /\ stdout = <<>>
    /\ exit_code = 0
    /\ results_file = Untouched
    /\ wrow = 1

NextMatch == CallMatcher

SpecMatch == InitMatch /\ [][NextMatch]_vars

(***************************************************************************)
(* main.  The two input files are read line by line.  A line of the grid   *)
(* file is given by the tokens line.split() yields (none for a blank       *)
(* line); a line of the words file is given by its characters.             *)
(***************************************************************************)
MaxFileLines == 2
MaxLineTokens == 2
MaxLineChars == 2

GridTokens == {"A"}
FileChars == {"a", "A", " "}

GridFileContents == SeqsOf(SeqsOf(GridTokens, 0, MaxLineTokens), 0, MaxFileLines)
WordsFileContents == SeqsOf(SeqsOf(FileChars, 0, MaxLineChars), 0, MaxFileLines)

\* load_grid: the token lists of the lines that are not blank
RECURSIVE load_grid(_)
load_grid(lines) ==
    IF lines = <<>> THEN <<>>
    ELSE (IF Head(lines) # <<>> THEN <<Head(lines)>> ELSE <<>>) \o load_grid(Tail(lines))

\* str.strip() and str.upper()
RECURSIVE LStrip(_)
LStrip(line) ==
    IF line # <<>> /\ Head(line) = " " THEN LStrip(Tail(line)) ELSE line

RECURSIVE RStrip(_)
RStrip(line) ==
    IF line # <<>> /\ line[Len(line)] = " "
    THEN RStrip(SubSeq(line, 1, Len(line) - 1))
    ELSE line

Strip(line) == RStrip(LStrip(line))

UpperChar(ch) == IF ch = "a" THEN "A" ELSE ch
Upper(line) == [k \in 1..Len(line) |-> UpperChar(line[k])]

\* load_words: line.strip().upper() of the lines on which it is not empty
RECURSIVE load_words(_)
load_words(lines) ==
    IF lines = <<>> THEN <<>>
    ELSE LET word == Upper(Strip(Head(lines)))
         IN  (IF word # <<>> THEN <<word>> ELSE <<>>) \o load_words(Tail(lines))

\* What main prints and writes, line by line.
Message(msg) == [msg |-> msg, arg |-> <<>>]
MessageOf(msg, arg) == [msg |-> msg, arg |-> arg]

Usage == <<Message("usage"), Message("example")>>

RowLines(found) == [k \in 1..Len(found) |-> MessageOf("row", found[k])]

ResultsTable(found) == <<Message("header"), Message("separator")>> \o RowLines(found)

\* except FileNotFoundError / except Exception: the message, then sys.exit(1)
Raise(type, filename) ==
    /\ exc' = [type |-> type, filename |-> filename]
    /\ pc' = "except"

\* len(sys.argv) != 3
WrongArgCount_below_only(n) == n < 3

WrongArgCount(n) == n # 3

CheckArgs ==
    /\ pc = "main"
    /\ IF WrongArgCount(argv_len)
       THEN /\ stdout' = stdout \o Usage
            /\ exit_code' = 1
            /\ pc' = "exited"
       ELSE /\ pc' = "load_grid"
            /\ UNCHANGED <<stdout, exit_code>>
    /\ UNCHANGED <<entry, grid, words, wi, found_words, exc, call, argv_len,
                   grid_file, words_file, opens, results_file, wrow>>

\* grid = load_grid(grid_file)
LoadGrid ==
    /\ pc = "load_grid"
    /\ opens' = Append(opens, "grid_file")
    /\ \/ /\ grid_file = "missing"
          /\ Raise("FileNotFoundError", "grid_file")
          /\ UNCHANGED grid
       \/ /\ grid_file = "unreadable"
          /\ Raise("OSError", "grid_file")
          /\ UNCHANGED grid
       \/ /\ grid_file = "readable"
          /\ \E lines \in GridFileContents : grid' = load_grid(lines)
          /\ pc' = "load_words"
          /\ UNCHANGED exc
    /\ UNCHANGED <<entry, words, wi, found_words, call, argv_len, grid_file,
                   words_file, stdout, exit_code, results_file, wrow>>

\* words = load_words(words_file)
LoadWords ==
    /\ pc = "load_words"
    /\ opens' = Append(opens, "words_file")
    /\ \/ /\ words_file = "missing"
          /\ Raise("FileNotFoundError", "words_file")
          /\ UNCHANGED words
       \/ /\ words_file = "unreadable"
          /\ Raise("OSError", "words_file")
          /\ UNCHANGED words
       \/ /\ words_file = "readable"
          /\ \E lines \in WordsFileContents : words' = load_words(lines)
          /\ pc' = "print_loaded"
          /\ UNCHANGED exc
    /\ UNCHANGED <<entry, grid, wi, found_words, call, argv_len, grid_file,
                   words_file, stdout, exit_code, results_file, wrow>>

\* The two prints after loading; len(grid[0]) raises IndexError on a grid
\* with no rows.  Then search_for_words(grid, words) is entered.
PrintLoaded ==
    /\ pc = "print_loaded"
    /\ IF IndexRaises(grid, 0)
       THEN /\ Raise("IndexError", "")
            /\ UNCHANGED stdout
       ELSE /\ stdout' = stdout \o
                   <<MessageOf("loaded", <<Len(grid), Len(PyIndex(grid, 0))>>),
                     MessageOf("searching", <<Len(words)>>),
                     Message("blank")>>
            /\ pc' = "search"
            /\ UNCHANGED exc
    /\ UNCHANGED <<entry, grid, words, wi, found_words, call, argv_len, grid_file,
                   words_file, opens, exit_code, results_file, wrow>>

\* The table on screen, or "No words found in the grid."
PrintResults ==
    /\ pc = "print_results"
    /\ stdout' = stdout \o
           (IF found_words # <<>>
            THEN <<MessageOf("found", <<Len(found_words)>>)>> \o ResultsTable(found_words)
            ELSE <<Message("no_words_found")>>)
    /\ pc' = "open_results"
    /\ UNCHANGED <<entry, grid, words, wi, found_words, exc, call, argv_len,
                   grid_file, words_file, opens, exit_code, results_file, wrow>>

\* open('word_search_results.txt', 'w'): truncates the file, or fails
OpenResults ==
    /\ pc = "open_results"
    /\ opens' = Append(opens, "word_search_results.txt")
    /\ \/ /\ results_file' = [opened |-> TRUE, lines |-> <<>>]
          /\ pc' = "write_header"
          /\ UNCHANGED exc
       \/ /\ Raise("OSError", "word_search_results.txt")
          /\ UNCHANGED results_file
    /\ UNCHANGED <<entry, grid, words, wi, found_words, call, argv_len, grid_file,
                   words_file, stdout, exit_code, wrow>>

\* f.write(line): the line reaches the file, or the write fails and the
\* file keeps what was written before it.
Write(line, next_pc) ==
    \/ /\ results_file' = [results_file EXCEPT !.lines = Append(@, line)]
       /\ pc' = next_pc
       /\ UNCHANGED exc
    \/ /\ Raise("OSError", "word_search_results.txt")
       /\ UNCHANGED results_file

WriteHeader ==
    /\ pc = "write_header"
    /\ Write(Message("header"), "write_separator")
    /\ UNCHANGED <<entry, grid, words, wi, found_words, call, argv_len, grid_file,
                   words_file, opens, stdout, exit_code, wrow>>

WriteSeparator ==
    /\ pc = "write_separator"
    /\ Write(Message("separator"), "write_rows")
    /\ UNCHANGED <<entry, grid, words, wi, found_words, call, argv_len, grid_file,
                   words_file, opens, stdout, exit_code, wrow>>

\* for word, row, col, direction in found_words: f.write(...)
WriteRow ==
    /\ pc = "write_rows"
    /\ wrow <= Len(found_words)
    /\ Write(MessageOf("row", found_words[wrow]), "write_rows")
    /\ wrow' = IF pc' = "write_rows" THEN wrow + 1 ELSE wrow
    /\ UNCHANGED <<entry, grid, words, wi, found_words, call, argv_len, grid_file,
                   words_file, opens, stdout, exit_code>>

\* The file is closed, the last line is printed and main returns.
PrintSaved ==
    /\ pc = "write_rows"
    /\ wrow > Len(found_words)
    /\ stdout' = stdout \o <<Message("saved")>>
    /\ exit_code' = 0
    /\ pc' = "exited"
    /\ UNCHANGED <<entry, grid, words, wi, found_words, exc, call, argv_len,
                   grid_file, words_file, opens, results_file, wrow>>

ExceptFileNotFound ==
    /\ pc = "except"
    /\ exc.type = "FileNotFoundError"
    /\ stdout' = stdout \o <<MessageOf("file_not_found", exc.filename),
                             Message("make_sure_files_exist")>>
    /\ exit_code' = 1
    /\ pc' = "exited"
    /\ UNCHANGED <<entry, grid, words, wi, found_words, exc, call, argv_len,
                   grid_file, words_file, opens, results_file, wrow>>

ExceptException ==
    /\ pc = "except"
    /\ exc.type # "FileNotFoundError"
    /\ stdout' = stdout \o <<MessageOf("error", exc.type),
                             Message("something_went_wrong")>>
    /\ exit_code' = 1
    /\ pc' = "exited"
    /\ UNCHANGED <<entry, grid, words, wi, found_words, exc, call, argv_len,
                   grid_file, words_file, opens, results_file, wrow>>

(***************************************************************************)
(* A run of the command-line program.                                      *)
(***************************************************************************)
InitMain ==
    /\ entry = "main"
    /\ pc = "main"
    /\ argv_len \in 2..4
    /\ grid_file \in {"missing", "unreadable", "readable"}
    /\ words_file \in {"missing", "unreadable", "readable"}
    /\ grid = <<>>
    /\ words = <<>>
    /\ wi = 1
    /\ found_words = <<>>
    /\ exc = NoException
    /\ call = NoCall
    /\ opens = <<>>
    /\ stdout = <<>>
    /\ exit_code = 0
    /\ results_file = Untouched
    /\ wrow = 1

NextMain ==
    \/ CheckArgs
    \/ LoadGrid
    \/ LoadWords
    \/ PrintLoaded
    \/ SearchWord
    \/ SearchReturn
    \/ PrintResults
    \/ OpenResults
    \/ WriteHeader
    \/ WriteSeparator
    \/ WriteRow
    \/ PrintSaved
    \/ ExceptFileNotFound
    \/ ExceptException

SpecMain == InitMain /\ [][NextMain]_vars

(***************************************************************************)
(* What the claims are stated in: the eight directions by name, in the     *)
(* documented table order, each with the way its letters run; where a word *)
(* occurs in a grid; the records a result holds for a word.                *)
(***************************************************************************)
TableOrder ==
    <<"horizontal_right", "horizontal_left", "vertical_down", "vertical_up",
      "diagonal_down_right", "diagonal_down_left", "diagonal_up_right",
      "diagonal_up_left">>

\* <<rows down, columns right>> per letter
Runs ==
    [horizontal_right |-> <<0, 1>>, horizontal_left |-> <<0, -1>>,
     vertical_down |-> <<1, 0>>, vertical_up |-> <<-1, 0>>,
     diagonal_down_right |-> <<1, 1>>, diagonal_down_left |-> <<1, -1>>,
     diagonal_up_right |-> <<-1, 1>>, diagonal_up_left |-> <<-1, -1>>]

NumRows(g) == Len(g)
NumCols(g) == IF Len(g) = 0 THEN 0 ELSE Len(g[1])

\* Every letter of w lies in the grid, on the line from (r, c) stepping by (dr, dc).
LettersRun(g, w, r, c, dr, dc) ==
    \A i \in 0..(Len(w) - 1) :
        /\ r + i * dr \in 0..(NumRows(g) - 1)
        /\ c + i * dc \in 0..(NumCols(g) - 1)
        /\ g[r + i * dr + 1][c + i * dc + 1] = w[i + 1]

\* <<row, col, rank of the direction in the table>>, 0-based cells
Occurrences(g, w) ==
    {o \in (0..(NumRows(g) - 1)) \X (0..(NumCols(g) - 1)) \X (1..8) :
        LettersRun(g, w, o[1], o[2], Runs[TableOrder[o[3]]][1], Runs[TableOrder[o[3]]][2])}

Before(o, p) ==
    \/ o[1] < p[1]
    \/ o[1] = p[1] /\ o[2] < p[2]
    \/ o[1] = p[1] /\ o[2] = p[2] /\ o[3] < p[3]

Earliest(occ) == CHOOSE o \in occ : \A p \in occ : p = o \/ Before(o, p)

\* The Match of an occurrence: 1-based cell, direction name.
MatchOf(w, o) == <<w, o[1] + 1, o[2] + 1, TableOrder[o[3]]>>

\* The words search_for_words has gone through, by index, and its result so far.
Processed == 1..(wi - 1)
RecordsFor(w) == {k \in 1..Len(found_words) : found_words[k][1] = w}
Supplied(w) == {j \in Processed : words[j] = w}
Searched == entry = "search_for_words" /\ pc = "returned"

\* C1: a word that matches at more than one (start cell, direction) pair is
\* reported at the occurrence earliest in row-major order of the start cell
\* and, at that cell, earliest in the table order of the directions.
C1_FirstMatchWins ==
    entry = "search_for_words" =>
        \A j \in Processed :
            LET occ == Occurrences(grid, words[j])
            IN  Cardinality(occ) > 1 =>
                    /\ RecordsFor(words[j]) # {}
                    /\ \A k \in RecordsFor(words[j]) :
                           found_words[k] = MatchOf(words[j], Earliest(occ))

\* A returned search of a word with occurrences at two cells, and with two
\* directions at the first of them.
C1_Witness ==
    /\ Searched
    /\ \E j \in Processed :
           LET occ == Occurrences(grid, words[j])
           IN  /\ \E o, p \in occ : o[1] # p[1] /\ o[2] # p[2]
               /\ \E p \in occ : p[1] = Earliest(occ)[1] /\ p[2] = Earliest(occ)[2]
                                 /\ p[3] # Earliest(occ)[3]
               /\ Len(words[j]) > 1
               /\ RecordsFor(words[j]) # {}

\* C2: a word that occurs exactly once along a straight line has one Match
\* per time it was supplied (exactly one when supplied once), holding the
\* 1-based cell of its first letter and the name of the direction its
\* letters run in.
C2_SingleOccurrence ==
    entry = "search_for_words" =>
        \A j \in Processed :
            LET occ == Occurrences(grid, words[j])
            IN  Cardinality(occ) = 1 =>
                    /\ Cardinality(RecordsFor(words[j])) = Cardinality(Supplied(words[j]))
                    /\ \A k \in RecordsFor(words[j]) :
                           \E o \in occ : found_words[k] = MatchOf(words[j], o)

\* A returned search of a word supplied once that occurs exactly once, away
\* from the first row or column, and has its one record.
C2_Witness ==
    /\ Searched
    /\ \E j \in Processed :
           LET occ == Occurrences(grid, words[j])
           IN  /\ Cardinality(occ) = 1
               /\ Cardinality(Supplied(words[j])) = 1
               /\ Cardinality(RecordsFor(words[j])) = 1
               /\ \E o \in occ : o[1] + o[2] > 0 /\ o[3] > 1

\* C3: a word that occurs nowhere in the grid has no record in the result,
\* every record is the Match of an occurrence (no placeholder), and the
\* words that do occur still have their records.
C3_AbsentOmitted ==
    entry = "search_for_words" =>
        /\ \A j \in Processed :
               Occurrences(grid, words[j]) = {} <=> RecordsFor(words[j]) = {}
        /\ \A k \in 1..Len(found_words) :
               /\ \E j \in Processed : words[j] = found_words[k][1]
               /\ \E o \in Occurrences(grid, found_words[k][1]) :
                      found_words[k] = MatchOf(found_words[k][1], o)

\* A returned search of an absent word and of a word that occurs.
C3_Witness ==
    /\ Searched
    /\ \E i, j \in Processed :
           /\ Occurrences(grid, words[i]) = {}
           /\ RecordsFor(words[i]) = {}
           /\ Occurrences(grid, words[j]) # {}
           /\ RecordsFor(words[j]) # {}

\* a is b with some entries left out, the others in b's order.
RECURSIVE IsSubsequence(_, _)
IsSubsequence(a, b) ==
    IF a = <<>> THEN TRUE
    ELSE IF b = <<>> THEN FALSE
    ELSE IF Head(a) = Head(b) THEN IsSubsequence(Tail(a), Tail(b))
    ELSE IsSubsequence(a, Tail(b))

ResultWords == [k \in 1..Len(found_words) |-> found_words[k][1]]

\* C4: the words of the result, in the result's order, are an
\* order-preserving subsequence of the words supplied.
C4_InputOrder ==
    entry = "search_for_words" =>
        IsSubsequence(ResultWords, SubSeq(words, 1, wi - 1))

\* A returned search of two different words, both found, supplied against
\* alphabetical order and against the order of their cells.
C4_Witness ==
    /\ Searched
    /\ Len(found_words) = 2
    /\ found_words[1][1] = <<"B">>
    /\ found_words[2][1] = <<"A">>
    /\ found_words[2][3] < found_words[1][3]

\* C5 as claimed: no word has more than one record in the result.
C5_AtMostOnePerWord ==
    entry = "search_for_words" =>
        \A k, l \in 1..Len(found_words) :
            found_words[k][1] = found_words[l][1] => k = l

\* C5: a word has at most as many records as the times it was supplied,
\* so at most one when it is supplied once.
C5_AtMostOnePerEntry ==
    entry = "search_for_words" =>
        \A j \in Processed :
            Cardinality(RecordsFor(words[j])) <= Cardinality(Supplied(words[j]))

\* A returned search of a word supplied once that occurs more than once and
\* has one record.
C5_Witness ==
    /\ Searched
    /\ \E j \in Processed :
           /\ Cardinality(Supplied(words[j])) = 1
           /\ Cardinality(Occurrences(grid, words[j])) > 1
           /\ Cardinality(RecordsFor(words[j])) = 1

\* The cells holding the letter, and the first of them in row-major order.
CellsHolding(g, ch) ==
    {cell \in (0..(NumRows(g) - 1)) \X (0..(NumCols(g) - 1)) :
        g[cell[1] + 1][cell[2] + 1] = ch}
FirstCell(cells) ==
    CHOOSE a \in cells :
        \A b \in cells : a[1] < b[1] \/ (a[1] = b[1] /\ a[2] <= b[2])

\* C8: a one-letter word whose letter is in the grid is reported at the
\* first cell in row-major order holding the letter, as horizontal_right.
C8_SingleLetter ==
    entry = "search_for_words" =>
        \A j \in Processed :
            LET cells == CellsHolding(grid, words[j][1])
            IN  (Len(words[j]) = 1 /\ cells # {}) =>
                    /\ RecordsFor(words[j]) # {}
                    /\ \A k \in RecordsFor(words[j]) :
                           found_words[k] = <<words[j], FirstCell(cells)[1] + 1,
                                              FirstCell(cells)[2] + 1, "horizontal_right">>

\* A returned search of a one-letter word whose letter first appears in the
\* second row, and appears again after it.
C8_Witness ==
    /\ Searched
    /\ \E j \in Processed :
           LET cells == CellsHolding(grid, words[j][1])
           IN  /\ Len(words[j]) = 1
               /\ Cardinality(cells) > 1
               /\ FirstCell(cells)[1] > 0
               /\ RecordsFor(words[j]) # {}

\* C6: find_word_in_direction returns true exactly when every letter of the
\* word lies inside the grid on the line from the start cell and the cell
\* holds that letter; an index below 0 never wraps around.
C6_MatcherContract ==
    call.made =>
        /\ call.result \in {"True", "False"}
        /\ call.result = "True" <=>
               \A i \in 0..(Len(call.word) - 1) :
                   LET row == call.start_row + i * call.delta_row
                       col == call.start_col + i * call.delta_col
                   IN  /\ 0 <= row /\ row < NumRows(grid)
                       /\ 0 <= col /\ col < NumCols(grid)
                       /\ grid[row + 1][col + 1] = call.word[i + 1]

\* A call from a corner cell, rejected, whose word would match if the index
\* -1 wrapped around to the opposite side of the grid.
C6_Witness ==
    /\ call.made
    /\ call.result = "False"
    /\ call.start_row = 0 /\ call.start_col = 0
    /\ call.delta_row = -1 /\ call.delta_col = -1
    /\ Len(call.word) = 2
    /\ NumRows(grid) = 2 /\ NumCols(grid) = 2
    /\ grid[1][1] = call.word[1]
    /\ grid[2][2] = call.word[2]

\* main has read both input files.
Loaded ==
    /\ entry = "main"
    /\ Len(opens) >= 2
    /\ grid_file = "readable"
    /\ words_file = "readable"

Rectangular(g) == \A r \in 1..Len(g) : Len(g[r]) = Len(g[1])

LongestLine(g) == IF NumRows(g) > NumCols(g) THEN NumRows(g) ELSE NumCols(g)

\* C7 as claimed: a grid with no rows, a word longer than any line of the
\* grid and a word with a letter the grid does not hold each end with no
\* Match for the word, and none of them with an error.
C7_EdgeCasesNeverError ==
    (Loaded /\ Rectangular(grid)) =>
        /\ exc.type # "IndexError"
        /\ \A j \in Processed :
               (\/ NumRows(grid) = 0
                \/ Len(words[j]) > LongestLine(grid)
                \/ \E i \in 1..Len(words[j]) : CellsHolding(grid, words[j][i]) = {})
               => RecordsFor(words[j]) = {}

\* C9 as claimed: a run that ends with exit code 1 does not leave
\* word_search_results.txt holding part of the results table.
C9_NoPartialResults ==
    (entry = "main" /\ pc = "exited" /\ exit_code = 1) =>
        ~(/\ results_file.opened
          /\ results_file.lines # <<>>
          /\ results_file.lines # ResultsTable(found_words))

LastTwo(out) == SubSeq(out, Len(out) - 1, Len(out))

\* C10: a wrong argument count ends with exit code 1 and the usage message,
\* no file opened; a missing grid or words file ends with exit code 1 and
\* the file-not-found message naming it; any other failure ends with exit
\* code 1 and the generic message; a run that ends otherwise has written
\* the whole results file.
C10_ExitCodes ==
    (entry = "main" /\ pc = "exited") =>
        /\ argv_len # 3 =>
               exit_code = 1 /\ stdout = Usage /\ opens = <<>>
        /\ (argv_len = 3 /\ grid_file = "missing") =>
               /\ exit_code = 1
               /\ LastTwo(stdout) = <<MessageOf("file_not_found", "grid_file"),
                                      Message("make_sure_files_exist")>>
        /\ (argv_len = 3 /\ grid_file = "readable" /\ words_file = "missing") =>
               /\ exit_code = 1
               /\ LastTwo(stdout) = <<MessageOf("file_not_found", "words_file"),
                                      Message("make_sure_files_exist")>>
        /\ exc.type \notin {"none", "FileNotFoundError"} =>
               /\ exit_code = 1
               /\ LastTwo(stdout) = <<MessageOf("error", exc.type),
                                      Message("something_went_wrong")>>
        /\ exit_code # 1 =>
               /\ argv_len = 3
               /\ exc = NoException
               /\ results_file = [opened |-> TRUE, lines |-> ResultsTable(found_words)]
               /\ wi = Len(words) + 1

\* A run with three arguments and both files read that failed while writing
\* the results, and ended with exit code 1.
C10_Witness ==
    /\ entry = "main"
    /\ pc = "exited"
    /\ exit_code = 1
    /\ Loaded
    /\ exc.type = "OSError"
    /\ results_file.opened
    /\ found_words # <<>>

====
